---------------------------- MODULE Spec2Model ----------------------------
(***************************************************************************)
(* revise: the generate-and-evaluate cache pipeline and the preference     *)
(* pair builder of src/revise/make_dataset.py, with the fingerprinting     *)
(* helper of src/revise/utils.py.                                          *)
(*                                                                         *)
(* A Python dict is a sequence of <<key, value>> pairs in insertion order; *)
(* a datasets.Dataset is [column_names, rows] with one dict per row; the   *)
(* cache directory is a function from file path to the lines of the file.  *)
(***************************************************************************)
EXTENDS Integers, Sequences, FiniteSets, TLC

VARIABLES cache, cache_dir, ncalls, prev, cur, md_args, md_out, hp, race

vars == <<cache, cache_dir, ncalls, prev, cur, md_args, md_out, hp, race>>

(***************************************************************************)
(* Bounds of the model.                                                    *)
(***************************************************************************)
\* calls of generate_and_evaluate in one run of the cache specification
MaxCalls == 2
\* rows of an input dataset, candidates per prompt and flattened records in
\* the single-call specification
MaxRows == 2
MaxCompletions == 2
MaxFlat == 4

Min(a, b) == IF a <= b THEN a ELSE b

(***************************************************************************)
(* Python dicts.                                                           *)
(***************************************************************************)
DictKeys(d) == [i \in 1..Len(d) |-> d[i][1]]

DictHas(d, k) == \E i \in 1..Len(d) : d[i][1] = k

DictGet(d, k) == d[CHOOSE i \in 1..Len(d) : d[i][1] = k][2]

\* d[k] = v of a dict under construction: a key already present keeps its
\* position and takes the new value
DictSet(d, k, v) ==
    IF DictHas(d, k)
    THEN [i \in 1..Len(d) |-> IF d[i][1] = k THEN <<k, v>> ELSE d[i]]
    ELSE Append(d, <<k, v>>)

SeqHas(s, x) == \E i \in 1..Len(s) : s[i] = x

(***************************************************************************)
(* datasets.Dataset                                                        *)
(***************************************************************************)
\* r.get(k): the value under k, None for a key the row lacks
DictGetOrNone(d, k) == IF DictHas(d, k) THEN DictGet(d, k) ELSE "None"

\* Dataset.from_list: the keys of the first row are the columns, and every
\* row is read through them ({k: [r.get(k) for r in rows] for k in rows[0]})
DatasetFromList(rows) ==
    IF rows = <<>> THEN [column_names |-> <<>>, rows |-> <<>>]
    ELSE LET columns == DictKeys(rows[1])
         IN  [column_names |-> columns,
              rows |-> [i \in 1..Len(rows) |->
                          [c \in 1..Len(columns) |->
                              <<columns[c], DictGetOrNone(rows[i], columns[c])>>]]]

\* dataset[key]: one column as a list
Column(dataset, key) ==
    [i \in 1..Len(dataset.rows) |-> DictGet(dataset.rows[i], key)]

\* dataset.select(range(n))
Select(dataset, n) ==
    [column_names |-> dataset.column_names, rows |-> SubSeq(dataset.rows, 1, n)]

\* str(dataset): the feature names and the number of rows, not the rows
DatasetStr_RowsOnly(dataset) == <<Len(dataset.rows)>>

DatasetStr(dataset) == <<dataset.column_names, Len(dataset.rows)>>

(***************************************************************************)
(* utils.hash_params                                                       *)
(***************************************************************************)
\* the parameter names of generate_and_evaluate in lexicographic order
SortedKeys ==
    <<"answer_key", "dataset", "evaluator_source", "max_new_tokens",
      "model_path", "num_completions", "num_examples", "prediction_key",
      "prepare_batch_chat_messages_source", "question_key", "seed",
      "temperature", "top_p">>

\* the place of every parameter name in that order
KeyRank ==
    [k \in {SortedKeys[r] : r \in 1..Len(SortedKeys)} |->
        CHOOSE r \in 1..Len(SortedKeys) : SortedKeys[r] = k]

\* one item put in its place among items already ordered by key
RECURSIVE InsertItem(_, _)
InsertItem(item, sorted) ==
    IF sorted = <<>> THEN <<item>>
    ELSE IF KeyRank[item[1]] < KeyRank[Head(sorted)[1]] THEN <<item>> \o sorted
    ELSE <<Head(sorted)>> \o InsertItem(item, Tail(sorted))

RECURSIVE SortItems(_, _)
SortItems(params, n) ==
    IF n = 0 THEN <<>> ELSE InsertItem(params[n], SortItems(params, n - 1))

JsonDumpsSorted_InsertionOrder(params) == params

\* json.dumps(params, sort_keys=True): the items ordered by key
JsonDumpsSorted(params) == SortItems(params, Len(params))

\* sha256(...).hexdigest(): injective on the serialization, so the digest is
\* represented by the serialization it is the digest of
HashParams(params) == JsonDumpsSorted(params)

(***************************************************************************)
(* generate_and_evaluate                                                   *)
(***************************************************************************)
\* the dict of lines 35-51, in insertion order
Params(cfg) ==
    << <<"model_path", cfg.model_path>>,
       <<"dataset", DatasetStr(cfg.dataset)>>,
       <<"evaluator_source", cfg.evaluator.class_source>>,
       <<"prepare_batch_chat_messages_source", cfg.prepare_batch_chat_messages_fn>>,
       <<"max_new_tokens", cfg.max_new_tokens>>,
       <<"temperature", cfg.temperature>>,
       <<"num_completions", cfg.num_completions>>,
       <<"top_p", cfg.top_p>>,
       <<"num_examples", cfg.num_examples>>,
       <<"seed", cfg.seed>>,
       <<"question_key", cfg.question_key>>,
       <<"answer_key", cfg.answer_key>>,
       <<"prediction_key", cfg.prediction_key>> >>

CachePath(hashed) == <<"./.cache/", hashed, ".jsonl">>

CacheHit_Never(files, cache_path, ignore_cache) == FALSE

CacheHit_IgnoreFlag(files, cache_path, ignore_cache) == cache_path \in DOMAIN files

\* os.path.exists(cache_path) and not ignore_cache
CacheHit(files, cache_path, ignore_cache) ==
    cache_path \in DOMAIN files /\ ~ignore_cache

\* json.dumps of one row: every item becomes key, JSON type and JSON text;
\* is_correct is the boolean column, the others hold strings
JsonDumpsRow(row) ==
    [i \in 1..Len(row) |->
        IF row[i][1] = "is_correct"
        THEN <<row[i][1], "literal", IF row[i][2] THEN "true" ELSE "false">>
        ELSE <<row[i][1], "string", row[i][2]>>]

\* json.loads of one line
JsonLoadsRow(line) ==
    [i \in 1..Len(line) |->
        IF line[i][2] = "literal"
        THEN <<line[i][1], line[i][3] = "true">>
        ELSE <<line[i][1], line[i][3]>>]

\* lines 111-114: one line per row of new_dataset.to_list()
WriteLines(dataset) == [i \in 1..Len(dataset.rows) |-> JsonDumpsRow(dataset.rows[i])]

\* lines 57-58
ReadDataset(lines) == DatasetFromList([i \in 1..Len(lines) |-> JsonLoadsRow(lines[i])])

\* lines 102-107: the dict literal of one scored record
ScoredRecord(cfg, question, gt_answer, prediction, is_correct) ==
    DictSet(DictSet(DictSet(DictSet(<<>>,
        cfg.question_key, question),
        cfg.answer_key, gt_answer),
        cfg.prediction_key, prediction),
        "is_correct", is_correct)

\* lines 100-108: zip(prediction_set, score_list) stops at the shorter list
ExampleRecords_Reversed(cfg, question, gt_answer, prediction_set, score_list) ==
    LET n == Min(Len(prediction_set), Len(score_list))
    IN  [j \in 1..n |->
            ScoredRecord(cfg, question, gt_answer,
                         prediction_set[n + 1 - j], score_list[j])]

ExampleRecords(cfg, question, gt_answer, prediction_set, score_list) ==
    [j \in 1..Min(Len(prediction_set), Len(score_list)) |->
        ScoredRecord(cfg, question, gt_answer, prediction_set[j], score_list[j])]

\* lines 87-108: the records of the first n examples, examples then candidates
RECURSIVE Flatten(_, _, _, _, _, _)
Flatten(cfg, questions, gt_answers, predictions, score_lists, n) ==
    IF n = 0 THEN <<>>
    ELSE Flatten(cfg, questions, gt_answers, predictions, score_lists, n - 1)
         \o ExampleRecords(cfg, questions[n], gt_answers[n],
                           predictions[n], score_lists[n])

NoCounts == [prepare |-> 0, generate |-> 0, evaluate |-> 0]

\* the call as the caller and the collaborators saw it
\* what can go wrong around one call: a collaborator that raises, or the
\* file system failing while the artifact is opened, written or read
Fault(kind, at) == [kind |-> kind, at |-> at]

NoFault == Fault("none", 0)

\* used is the dataset handed to the prompt preparation (line 70)
CallRecord(cfg, outcome, result, files, counts, predictions, score_lists, fault, used) ==
    [cfg |-> cfg, outcome |-> outcome, result |-> result, cache_before |-> files,
     counts |-> counts, predictions |-> predictions, score_lists |-> score_lists,
     fault |-> fault, used |-> used]

\* a line of which only the first part reached the file
TornLine(line) == Append(SubSeq(line, 1, Len(line) - 1), <<"", "torn", "">>)

Malformed(line) == Len(line) >= 1 /\ line[Len(line)][2] = "torn"

\* the artifact with cache_path holding the given lines
WithFile(files, cache_path, lines) ==
    [p \in DOMAIN files \cup {cache_path} |->
        IF p = cache_path THEN lines ELSE files[p]]

FilesAfter_OpenedEarly(files, cache_path, lines, fault) ==
    IF fault.kind \in {"generator_raises", "evaluator_raises"}
    THEN WithFile(files, cache_path, <<>>)
    ELSE WithFile(files, cache_path, lines)

\* lines 84-114: the files a call that got past the checks leaves behind.
\* The collaborators run before open(cache_path, "w"); open creates or
\* empties the file, and every write adds one line.
FilesAfter(files, cache_path, lines, fault) ==
    IF fault.kind \in {"generator_raises", "evaluator_raises", "open_fails"}
    THEN files
    ELSE IF fault.kind = "write_cut" /\ fault.at < Len(lines)
    THEN WithFile(files, cache_path, SubSeq(lines, 1, fault.at))
    ELSE IF fault.kind = "write_torn" /\ fault.at < Len(lines)
    THEN WithFile(files, cache_path,
                  Append(SubSeq(lines, 1, fault.at), TornLine(lines[fault.at + 1])))
    ELSE WithFile(files, cache_path, lines)

\* how a call that got past the checks ends
ComputeOutcome(lines, fault) ==
    IF fault.kind = "generator_raises" THEN "GeneratorError"
    ELSE IF fault.kind = "evaluator_raises" THEN "EvaluatorError"
    ELSE IF fault.kind = "open_fails" THEN "OSError"
    ELSE IF fault.kind \in {"write_cut", "write_torn"} /\ fault.at < Len(lines)
    THEN "OSError"
    ELSE "computed"

\* lines 57-58 on a file that exists: open and read may fail, json.loads
\* raises on a line that is no JSON document
ReadOutcome(lines, fault) ==
    IF fault.kind = "read_fails" THEN "OSError"
    ELSE IF \E i \in 1..Len(lines) : Malformed(lines[i]) THEN "JSONDecodeError"
    ELSE "loaded"

NoCall == [outcome |-> "none"]

\* the dataset lines 66-67 leave in use; select raises IndexError past the end
Truncates(cfg) == cfg.num_examples > 0

SelectFails(cfg) == Truncates(cfg) /\ cfg.num_examples > Len(cfg.dataset.rows)

Used_Untruncated(cfg) == cfg.dataset

\* lines 66-67: the dataset the rest of the call works on
Used(cfg) ==
    IF Truncates(cfg) THEN Select(cfg.dataset, cfg.num_examples) ELSE cfg.dataset

\* One whole call.  predictions is what generator.chat returns, score_lists
\* what the evaluator.run calls return, one list per example; fault is what
\* goes wrong during the call.
GenerateAndEvaluate(cfg, predictions, score_lists, fault) ==
    LET hashed == HashParams(Params(cfg))
        cache_path == CachePath(hashed)
        used == Used(cfg)
        questions == Column(used, cfg.question_key)
        gt_answers == Column(used, cfg.answer_key)
        n == Min(Len(questions), Len(predictions))
        new_dataset ==
            DatasetFromList(Flatten(cfg, questions, gt_answers,
                                    predictions, score_lists, n))
        outcome == ComputeOutcome(WriteLines(new_dataset), fault)
    IN  /\ ncalls < MaxCalls
        /\ ncalls' = ncalls + 1
        /\ cache_dir' = TRUE
        /\ prev' = cur
        /\ UNCHANGED <<md_args, md_out, hp, race>>
        /\ IF CacheHit(cache, cache_path, cfg.ignore_cache)
           THEN /\ cur' = IF ReadOutcome(cache[cache_path], fault) = "loaded"
                          THEN CallRecord(cfg, "loaded",
                                          ReadDataset(cache[cache_path]),
                                          cache, NoCounts, <<>>, <<>>, fault, <<>>)
                          ELSE CallRecord(cfg, ReadOutcome(cache[cache_path], fault),
                                          <<>>, cache, NoCounts, <<>>, <<>>, fault, <<>>)
                /\ cache' = cache
           ELSE IF ~SeqHas(cfg.dataset.column_names, cfg.question_key)
                   \/ ~SeqHas(cfg.dataset.column_names, cfg.answer_key)
           THEN /\ cur' = CallRecord(cfg, "ValueError", <<>>, cache, NoCounts,
                                     <<>>, <<>>, fault, <<>>)
                /\ cache' = cache
           ELSE IF SelectFails(cfg)
           THEN /\ cur' = CallRecord(cfg, "IndexError", <<>>, cache, NoCounts,
                                     <<>>, <<>>, fault, <<>>)
                /\ cache' = cache
           ELSE /\ cur' =
                     IF outcome = "GeneratorError"
                     THEN CallRecord(cfg, outcome, <<>>, cache,
                                     [prepare |-> 1, generate |-> 1, evaluate |-> 0],
                                     <<>>, <<>>, fault, used)
                     ELSE IF outcome = "EvaluatorError"
                     THEN CallRecord(cfg, outcome, <<>>, cache,
                                     [prepare |-> 1, generate |-> 1,
                                      evaluate |-> Min(fault.at, n)],
                                     predictions,
                                     SubSeq(score_lists, 1, Min(fault.at, n) - 1),
                                     fault, used)
                     ELSE CallRecord(cfg, outcome,
                                     IF outcome = "computed" THEN new_dataset ELSE <<>>,
                                     cache,
                                     [prepare |-> 1, generate |-> 1, evaluate |-> n],
                                     predictions, SubSeq(score_lists, 1, n),
                                     fault, used)
                /\ cache' = FilesAfter(cache, cache_path, WriteLines(new_dataset), fault)

(***************************************************************************)
(* The inputs the calls are drawn from.                                    *)
(***************************************************************************)
Examples ==
    {[question |-> "q1", answer |-> "a1"], [question |-> "q2", answer |-> "a2"]}

ColumnLists == {<<"question", "answer">>, <<"question">>, <<"answer">>}

Predictions == {"a1", "a2"}

InputRow(column_names, e) ==
    [i \in 1..Len(column_names) |-> <<column_names[i], e[column_names[i]]>>]

InputDatasets(sizes) ==
    UNION {UNION {{[column_names |-> c,
                    rows |-> [i \in 1..n |-> InputRow(c, es[i])]] :
                        es \in [1..n -> Examples]} : n \in sizes} : c \in ColumnLists}

\* the call of the __main__ block (lines 234-245) with the arguments that vary
Config(dataset, num_completions, num_examples, seed, ignore_cache) ==
    [model_path |-> "meta-llama/llama-3.2-1b-instruct",
     dataset |-> dataset,
     evaluator |-> [class_source |-> "class GSM8KEvaluator", mode |-> "flexible"],
     prepare_batch_chat_messages_fn |-> "def prepare_batch_chat_messages_gsm8k",
     max_new_tokens |-> 1024,
     temperature |-> "0.7",
     num_completions |-> num_completions,
     top_p |-> "0.9",
     num_examples |-> num_examples,
     seed |-> seed,
     question_key |-> "question",
     answer_key |-> "answer",
     prediction_key |-> "prediction",
     ignore_cache |-> ignore_cache]

HasRequiredColumns(cfg) ==
    /\ SeqHas(cfg.dataset.column_names, cfg.question_key)
    /\ SeqHas(cfg.dataset.column_names, cfg.answer_key)

\* the examples the generator is given, when the call can get that far
Reaches(cfg) == HasRequiredColumns(cfg) /\ ~SelectFails(cfg)

\* generator.chat: num_completions candidates for every prompt
GeneratorOutputs(cfg) ==
    IF Reaches(cfg)
    THEN [1..Len(Used(cfg).rows) -> [1..cfg.num_completions -> Predictions]]
    ELSE {<<>>}

\* evaluator.run(...)["score_list"] for every example, of the lengths given
EvaluatorOutputs(cfg, lengths) ==
    IF Reaches(cfg)
    THEN [1..Len(Used(cfg).rows) -> UNION {[1..k -> BOOLEAN] : k \in lengths}]
    ELSE {<<>>}

\* the cache specification: one-row datasets, one candidate, two seeds
CacheConfigs ==
    {Config(d, 1, -1, s, ic) :
        d \in InputDatasets({1}), s \in {42, 43}, ic \in BOOLEAN}

\* the single-call specification: every size within the bounds
MissConfigs ==
    {c \in {Config(d, k, ne, 42, ic) :
                d \in InputDatasets(0..MaxRows), k \in 1..MaxCompletions,
                ne \in (-1)..MaxRows, ic \in BOOLEAN} :
        Reaches(c) => Len(Used(c).rows) * c.num_completions <= MaxFlat}

Init ==
    /\ cache = <<>>
    /\ cache_dir = FALSE
    /\ ncalls = 0
    /\ prev = NoCall
    /\ cur = NoCall
    /\ md_args = <<>>
    /\ md_out = <<>>
    /\ hp = <<>>
    /\ race = <<>>

Next ==
    \E cfg \in CacheConfigs :
        \E predictions \in GeneratorOutputs(cfg) :
            \E score_lists \in EvaluatorOutputs(cfg, {cfg.num_completions}) :
                GenerateAndEvaluate(cfg, predictions, score_lists, NoFault)

Spec == Init /\ [][Next]_vars

NextMiss ==
    /\ ncalls = 0
    /\ \E cfg \in MissConfigs :
        \E predictions \in GeneratorOutputs(cfg) :
            \E score_lists \in
                    EvaluatorOutputs(cfg, {cfg.num_completions - 1, cfg.num_completions}) :
                GenerateAndEvaluate(cfg, predictions, score_lists, NoFault)

SpecMiss == Init /\ [][NextMiss]_vars

(***************************************************************************)
(* Properties of generate_and_evaluate.                                    *)
(***************************************************************************)
Called == cur.outcome # "none"

\* everything that makes up the configuration but the cache switch
Configuration(cfg) == [cfg EXCEPT !.ignore_cache = FALSE]

PathOf(cfg) == CachePath(HashParams(Params(cfg)))

\* C1: a call with ignore_cache=false that follows a completed cache-miss
\* call with the identical configuration returns a dataset equal record for
\* record to the one that call returned, and invokes the prompt preparation,
\* the generator and the evaluator zero times.
C1_CacheRoundTrip ==
    (/\ prev.outcome = "computed"
     /\ Called
     /\ Configuration(cur.cfg) = Configuration(prev.cfg)
     /\ ~cur.cfg.ignore_cache)
    => /\ cur.outcome = "loaded"
       /\ cur.result = prev.result
       /\ cur.counts = NoCounts

C1_Witness ==
    /\ prev.outcome = "computed"
    /\ cur.outcome = "loaded"
    /\ Configuration(cur.cfg) = Configuration(prev.cfg)
    /\ Len(cur.result.rows) >= 1

\* the rows hold, example by example and candidate by candidate, what the
\* collaborators returned during this call
FreshRows(c) ==
    LET K == c.cfg.num_completions
        N == Len(c.predictions)
    IN  /\ Len(c.result.rows) = N * K
        /\ \A i \in 0..(N - 1) : \A j \in 0..(K - 1) :
              LET row == c.result.rows[i * K + j + 1]
              IN  /\ DictGet(row, c.cfg.prediction_key) = c.predictions[i + 1][j + 1]
                  /\ DictGet(row, "is_correct") = c.score_lists[i + 1][j + 1]

C3_MissingColumn ==
    (Called /\ ~HasRequiredColumns(cur.cfg))
    => /\ cur.outcome = "ValueError"
       /\ cur.counts = NoCounts
       /\ cache = cur.cache_before

C3_Witness ==
    /\ Called
    /\ ~HasRequiredColumns(cur.cfg)
    /\ ~cur.cfg.ignore_cache
    /\ cur.outcome = "ValueError"
    /\ DOMAIN cur.cache_before # {}

\* C4: on a cache miss with N examples used, K candidates per example and K
\* scores per evaluator call, the result has N*K records and record i*K+j
\* carries the question and the answer of example i, the j-th candidate of
\* example i and the j-th score returned for example i.
C4_Flatten ==
    (/\ cur.outcome = "computed"
     /\ \A i \in 1..Len(cur.score_lists) :
            Len(cur.score_lists[i]) = cur.cfg.num_completions)
    => LET K == cur.cfg.num_completions
           used == Used(cur.cfg)
           N == Len(used.rows)
       IN  /\ Len(cur.result.rows) = N * K
           /\ \A i \in 0..(N - 1) : \A j \in 0..(K - 1) :
                cur.result.rows[i * K + j + 1] =
                    << <<cur.cfg.question_key,
                         DictGet(used.rows[i + 1], cur.cfg.question_key)>>,
                       <<cur.cfg.answer_key,
                         DictGet(used.rows[i + 1], cur.cfg.answer_key)>>,
                       <<cur.cfg.prediction_key, cur.predictions[i + 1][j + 1]>>,
                       <<"is_correct", cur.score_lists[i + 1][j + 1]>> >>

C4_Witness ==
    /\ cur.outcome = "computed"
    /\ cur.cfg.num_completions = 2
    /\ Len(cur.result.rows) = 4
    /\ cur.predictions[1][1] # cur.predictions[1][2]
    /\ cur.score_lists[2][1] # cur.score_lists[2][2]
    /\ DictGet(cur.cfg.dataset.rows[1], "question")
         # DictGet(cur.cfg.dataset.rows[2], "question")


(***************************************************************************)
(* make_dataset.  Text is a sequence of characters.                        *)
(***************************************************************************)
\* length of a prediction of the one-record inputs
MaxLen == 4
\* original examples, candidates per example and scored records of the
\* many-record inputs
MaxExamples == 2
MaxCandidates == 2
MaxRecords == 4

\* first position at or after i where sep occurs in s, 0 when there is none
RECURSIVE Find(_, _, _)
Find(s, sep, i) ==
    IF i + Len(sep) - 1 > Len(s) THEN 0
    ELSE IF SubSeq(s, i, i + Len(sep) - 1) = sep THEN i
    ELSE Find(s, sep, i + 1)

\* str.split(sep): the pieces between the occurrences of sep, left to right
RECURSIVE Split(_, _)
Split(s, sep) ==
    LET i == Find(s, sep, 1)
    IN  IF i = 0 THEN <<s>>
        ELSE <<SubSeq(s, 1, i - 1)>> \o Split(SubSeq(s, i + Len(sep), Len(s)), sep)

StripPrediction_First(prediction, rethink_token) == Split(prediction, rethink_token)[1]

\* line 148: prediction.split(rethink_token)[-1]
StripPrediction(prediction, rethink_token) ==
    LET parts == Split(prediction, rethink_token) IN parts[Len(parts)]

AssistantMessages_Swapped(prediction, gt_answer, is_correct, is_verifier, rethink_token) ==
    IF is_correct
    THEN [chosen |-> prediction \o rethink_token, rejected |-> prediction]
    ELSE [chosen |-> prediction \o rethink_token
                        \o (IF is_verifier THEN <<>> ELSE gt_answer),
          rejected |-> prediction]

AssistantMessages_AlwaysGt(prediction, gt_answer, is_correct, is_verifier, rethink_token) ==
    IF is_correct
    THEN [chosen |-> prediction, rejected |-> prediction \o rethink_token]
    ELSE [chosen |-> prediction \o rethink_token \o gt_answer,
          rejected |-> prediction]

\* lines 152-159: chosen_message and rejected_message
AssistantMessages(prediction, gt_answer, is_correct, is_verifier, rethink_token) ==
    IF is_correct
    THEN [chosen |-> prediction, rejected |-> prediction \o rethink_token]
    ELSE [chosen |-> prediction \o rethink_token
                        \o (IF is_verifier THEN <<>> ELSE gt_answer),
          rejected |-> prediction]

\* prepare_chat_messages_fn(question): the prompt turns for one question
PrepareChatMessages(question) == << [role |-> "user", content |-> question] >>

AssistantTurn(content) == [role |-> "assistant", content |-> content]

Transcript_ReplyOnly(user_messages, message) == <<AssistantTurn(message)>>

\* lines 162-163 and 187-190: user_messages + [{"role": "assistant", ...}]
Transcript(user_messages, message) ==
    Append(user_messages, AssistantTurn(message))

\* lines 144-175: the pair of one scored record
PolicyPair(args, sample) ==
    LET question == DictGet(sample, args.question_key)
        gt_answer == DictGet(sample, args.answer_key)
        prediction == StripPrediction(DictGet(sample, args.prediction_key),
                                      args.rethink_token)
        is_correct == DictGet(sample, "is_correct")
        messages == AssistantMessages(prediction, gt_answer, is_correct,
                                      args.is_verifier, args.rethink_token)
        user_messages == PrepareChatMessages(question)
    IN  DictSet(DictSet(DictSet(DictSet(DictSet(DictSet(DictSet(<<>>,
            args.question_key, question),
            args.answer_key, gt_answer),
            args.prediction_key, prediction),
            "is_correct", is_correct),
            "is_verifier", args.is_verifier),
            "chosen", Transcript(user_messages, messages.chosen)),
            "rejected", Transcript(user_messages, messages.rejected))

\* lines 180-203: the pair built from the ground-truth answer of one record
GtPair(args, sample) ==
    LET question == DictGet(sample, args.question_key)
        gt_answer == DictGet(sample, args.answer_key)
        user_messages == PrepareChatMessages(question)
    IN  DictSet(DictSet(DictSet(DictSet(DictSet(DictSet(DictSet(DictSet(<<>>,
            args.question_key, question),
            args.answer_key, gt_answer),
            args.prediction_key, gt_answer),
            "is_correct", TRUE),
            "is_verifier", args.is_verifier),
            "is_gt", TRUE),
            "chosen", Transcript(user_messages, gt_answer)),
            "rejected", Transcript(user_messages, gt_answer \o args.rethink_token))

PairList_GtFirst(policy, gt, use_gt) == (IF use_gt THEN gt ELSE <<>>) \o policy

\* lines 141-203: new_dataset, the first loop and then the use_gt loop
PairList(policy, gt, use_gt) == policy \o (IF use_gt THEN gt ELSE <<>>)

MissingColumn_NoIsCorrect(args) ==
    \/ ~SeqHas(args.dataset.column_names, args.question_key)
    \/ ~SeqHas(args.dataset.column_names, args.answer_key)
    \/ ~SeqHas(args.dataset.column_names, args.prediction_key)

\* lines 129-139: the four column checks
MissingColumn(args) ==
    \/ ~SeqHas(args.dataset.column_names, args.question_key)
    \/ ~SeqHas(args.dataset.column_names, args.answer_key)
    \/ ~SeqHas(args.dataset.column_names, args.prediction_key)
    \/ ~SeqHas(args.dataset.column_names, "is_correct")

NotRun == [outcome |-> "none"]

\* lines 144-150: sample[key] on a record without that key
SampleLacksKey(args, sample) ==
    \/ ~DictHas(sample, args.question_key)
    \/ ~DictHas(sample, args.answer_key)
    \/ ~DictHas(sample, args.prediction_key)
    \/ ~DictHas(sample, "is_correct")

\* One whole call of make_dataset on md_args.  prepare_calls counts the calls
\* of prepare_chat_messages_fn, pairs the entries appended to new_dataset.
MakeDataset ==
    /\ md_out = NotRun
    /\ LET rows == md_args.dataset.rows
           policy == [i \in 1..Len(rows) |-> PolicyPair(md_args, rows[i])]
           gt == [i \in 1..Len(rows) |-> GtPair(md_args, rows[i])]
       IN  md_out' =
             IF MissingColumn(md_args)
             THEN [outcome |-> "ValueError", prepare_calls |-> 0, pairs |-> 0]
             ELSE IF Len(rows) >= 1 /\ SampleLacksKey(md_args, rows[1])
             THEN [outcome |-> "KeyError", prepare_calls |-> 0, pairs |-> 0]
             ELSE [outcome |-> "returned",
                   dataset |-> DatasetFromList(PairList(policy, gt, md_args.use_gt)),
                   prepare_calls |-> Len(rows) + (IF md_args.use_gt THEN Len(rows) ELSE 0),
                   pairs |-> Len(PairList(policy, gt, md_args.use_gt))]
    /\ UNCHANGED <<cache, cache_dir, ncalls, prev, cur, md_args, hp, race>>

(***************************************************************************)
(* The inputs of make_dataset.                                             *)
(***************************************************************************)
\* the default rethink_token "<|reserved_special_token_0|>" as two characters
RethinkToken == <<"<", ">">>

Alphabet == {"p", "<", ">"}

Texts(n) == UNION {[1..k -> Alphabet] : k \in 0..n}

ScoredColumns == <<"question", "answer", "prediction", "is_correct">>

ScoredRow(question, gt_answer, prediction, is_correct) ==
    << <<"question", question>>, <<"answer", gt_answer>>,
       <<"prediction", prediction>>, <<"is_correct", is_correct>> >>

\* example e of a scored dataset: its question and its ground-truth answer
QuestionOf(e) == [k \in 1..e |-> "q"]

AnswerOf(e) == [k \in 1..e |-> "g"]

\* what generate_and_evaluate returns for E examples with K candidates each
ScoredDataset(E, K, predictions, scores) ==
    [column_names |-> ScoredColumns,
     rows |-> [r \in 1..(E * K) |->
                 ScoredRow(QuestionOf(((r - 1) \div K) + 1),
                           AnswerOf(((r - 1) \div K) + 1),
                           predictions[r], scores[r])]]

MdArgs(dataset, E, is_verifier, use_gt) ==
    [dataset |-> dataset, examples |-> E,
     question_key |-> "question", answer_key |-> "answer",
     prediction_key |-> "prediction",
     is_verifier |-> is_verifier, use_gt |-> use_gt,
     rethink_token |-> RethinkToken]

\* one record with any prediction of up to MaxLen characters
OneRecordInputs ==
    {MdArgs(ScoredDataset(1, 1, <<p>>, <<c>>), 1, v, g) :
        p \in Texts(MaxLen), c \in BOOLEAN, v \in BOOLEAN, g \in BOOLEAN}

\* E examples with K candidates each; a candidate is plain or a rethought one
ManyRecordPredictions == {<<"p">>, <<"p", "<", ">", "p", "p">>}

ManyRecordInputs ==
    UNION {UNION {{MdArgs(ScoredDataset(E, K, ps, cs), E, v, g) :
                      ps \in [1..(E * K) -> ManyRecordPredictions],
                      cs \in [1..(E * K) -> BOOLEAN],
                      v \in BOOLEAN, g \in BOOLEAN} :
               K \in {k \in 1..MaxCandidates : E * k <= MaxRecords}} :
           E \in 0..MaxExamples}

\* a dataset that never had the column key
DropColumn(dataset, key) ==
    [column_names |-> SelectSeq(dataset.column_names, LAMBDA c : c # key),
     rows |-> [i \in 1..Len(dataset.rows) |->
                 SelectSeq(dataset.rows[i], LAMBDA item : item[1] # key)]]

\* zero or one record, one of the four columns absent
MissingColumnInputs ==
    {MdArgs(DropColumn(ScoredDataset(E, 1, [r \in 1..E |-> <<"p">>],
                                     [r \in 1..E |-> c]),
                       ScoredColumns[k]),
            E, v, g) :
        E \in 0..1, k \in 1..Len(ScoredColumns),
        c \in BOOLEAN, v \in BOOLEAN, g \in BOOLEAN}

InitMD ==
    /\ cache = <<>>
    /\ cache_dir = FALSE
    /\ ncalls = 0
    /\ prev = NoCall
    /\ cur = NoCall
    /\ md_args \in OneRecordInputs \cup ManyRecordInputs \cup MissingColumnInputs
    /\ md_out = NotRun
    /\ hp = <<>>
    /\ race = <<>>

NextMD == MakeDataset

SpecMD == InitMD /\ [][NextMD]_vars

(***************************************************************************)
(* Properties of make_dataset.                                             *)
(***************************************************************************)
Returned == md_out.outcome = "returned"

InRows == md_args.dataset.rows

OutRows == md_out.dataset.rows

\* content of the final turn of a transcript
FinalContent(turns) == turns[Len(turns)].content

Contains(s, sep) == Find(s, sep, 1) # 0

\* the pair at position i of the output and the record at position i
PairField(i, key) == DictGet(OutRows[i], key)

InField(i, key) == DictGet(InRows[i], key)

\* C5: for a record with is_correct true, under either is_verifier, the
\* final assistant turn of chosen is the marker-stripped prediction and the
\* final assistant turn of rejected is that prediction followed by the
\* rethink marker; the ground-truth answer is appended to neither.
C5_CorrectBranch ==
    Returned =>
        \A i \in 1..Len(InRows) :
            InField(i, "is_correct") =>
                /\ ~Contains(PairField(i, "prediction"), md_args.rethink_token)
                /\ FinalContent(PairField(i, "chosen")) = PairField(i, "prediction")
                /\ FinalContent(PairField(i, "rejected"))
                     = PairField(i, "prediction") \o md_args.rethink_token

C5_Witness ==
    /\ Returned
    /\ md_args.is_verifier
    /\ Len(InRows) = 1
    /\ InField(1, "is_correct")
    /\ Contains(InField(1, "prediction"), md_args.rethink_token)
    /\ Len(PairField(1, "prediction")) >= 1

\* C6: for a record with is_correct false, rejected ends with the
\* marker-stripped prediction; chosen ends with prediction + marker +
\* ground-truth answer when is_verifier is false and with exactly
\* prediction + marker when is_verifier is true.
C6_IncorrectBranch ==
    Returned =>
        \A i \in 1..Len(InRows) :
            ~InField(i, "is_correct") =>
                /\ ~Contains(PairField(i, "prediction"), md_args.rethink_token)
                /\ FinalContent(PairField(i, "rejected")) = PairField(i, "prediction")
                /\ FinalContent(PairField(i, "chosen")) =
                     IF md_args.is_verifier
                     THEN PairField(i, "prediction") \o md_args.rethink_token
                     ELSE PairField(i, "prediction") \o md_args.rethink_token
                            \o InField(i, "answer")

C6_Witness ==
    /\ Returned
    /\ md_args.is_verifier
    /\ Len(InRows) = 1
    /\ ~InField(1, "is_correct")
    /\ Len(PairField(1, "prediction")) >= 1
    /\ FinalContent(PairField(1, "chosen"))
         = PairField(1, "prediction") \o md_args.rethink_token

\* the text of s before the first occurrence of sep, s itself without one
BeforeFirst(s, sep) ==
    IF Contains(s, sep) THEN SubSeq(s, 1, Find(s, sep, 1) - 1) ELSE s

\* C7: the prediction stored in the pair is the text of the input
\* prediction that precedes the first rethink marker, and the input
\* prediction unchanged when it holds no marker.
C7_TextBeforeFirstMarker ==
    Returned =>
        \A i \in 1..Len(InRows) :
            PairField(i, "prediction")
                = BeforeFirst(InField(i, "prediction"), md_args.rethink_token)

\* C8: with use_gt true, M scored records that stem from E original
\* examples give exactly M + E pairs.
C8_OneGtPairPerExample ==
    (Returned /\ md_args.use_gt)
    => Len(OutRows) = Len(InRows) + md_args.examples

\* C9: every pair of the ground-truth pass has is_gt true and is_correct
\* true, chosen ending with the ground-truth answer verbatim and rejected
\* ending with the ground-truth answer followed by the rethink marker.
C9_GtPairsMarked ==
    (Returned /\ md_args.use_gt)
    => \A k \in (Len(InRows) + 1)..Len(OutRows) :
          /\ DictHas(OutRows[k], "is_gt")
          /\ PairField(k, "is_gt") = TRUE
          /\ PairField(k, "is_correct") = TRUE
          /\ FinalContent(PairField(k, "chosen")) = PairField(k, "answer")
          /\ FinalContent(PairField(k, "rejected"))
               = PairField(k, "answer") \o md_args.rethink_token

IsSuffix(t, s) ==
    Len(t) <= Len(s) /\ SubSeq(s, Len(s) - Len(t) + 1, Len(s)) = t

\* C10: the first M pairs are the policy pairs, the i-th from the i-th
\* record; with use_gt every ground-truth pair comes after them, in input
\* order; without use_gt there are exactly M pairs and no ground-truth pair.
C10_OutputOrder ==
    Returned =>
        LET M == Len(InRows)
        IN  /\ Len(OutRows) >= M
            /\ \A i \in 1..M :
                  /\ PairField(i, "question") = InField(i, "question")
                  /\ PairField(i, "answer") = InField(i, "answer")
                  /\ PairField(i, "is_correct") = InField(i, "is_correct")
                  /\ IsSuffix(PairField(i, "prediction"), InField(i, "prediction"))
            /\ \A k \in (M + 1)..Len(OutRows) :
                  /\ md_args.use_gt
                  /\ k - M <= M
                  /\ PairField(k, "question") = InField(k - M, "question")
                  /\ PairField(k, "prediction") = InField(k - M, "answer")
                  /\ FinalContent(PairField(k, "chosen")) = InField(k - M, "answer")
            /\ md_args.use_gt => Len(OutRows) > M \/ M = 0
            /\ ~md_args.use_gt => Len(OutRows) = M

C10_Witness ==
    /\ Returned
    /\ md_args.use_gt
    /\ md_args.examples = 2
    /\ Len(InRows) = 4
    /\ Len(OutRows) > 4
    /\ InField(1, "prediction") # InField(2, "prediction")

\* all turns of a transcript but the last
Leading(turns) == SubSeq(turns, 1, Len(turns) - 1)

\* C11: in every emitted pair, policy or ground-truth, chosen and rejected
\* have the same length, all their turns except the last are the same in
\* both and are the turns the prompt-preparation function returned for the
\* record's question, and the last turn of each has role assistant.
C11_SharedPrompt ==
    Returned =>
        \A i \in 1..Len(OutRows) :
            LET chosen == PairField(i, "chosen")
                rejected == PairField(i, "rejected")
            IN  /\ Len(chosen) = Len(rejected)
                /\ Len(chosen) >= 1
                /\ Leading(chosen) = Leading(rejected)
                /\ Leading(chosen)
                     = PrepareChatMessages(PairField(i, md_args.question_key))
                /\ chosen[Len(chosen)].role = "assistant"
                /\ rejected[Len(rejected)].role = "assistant"

C11_Witness ==
    /\ Returned
    /\ md_args.use_gt
    /\ Len(InRows) >= 2
    /\ Len(OutRows) = 2 * Len(InRows)
    /\ PairField(1, md_args.question_key) # PairField(Len(InRows), md_args.question_key)
    /\ Len(PairField(1, "chosen")) = 2

\* the make_dataset call has ended, one way or the other
MdEnded == md_out # NotRun

LacksColumn(key) == ~SeqHas(md_args.dataset.column_names, key)

\* C12: a make_dataset call whose input lacks the question, the answer, the
\* prediction or the is_correct column ends with a configuration error,
\* raised before the prompt-preparation function is called and before any
\* pair is built.
C12_MissingColumnRejected ==
    (/\ MdEnded
     /\ \/ LacksColumn(md_args.question_key)
        \/ LacksColumn(md_args.answer_key)
        \/ LacksColumn(md_args.prediction_key)
        \/ LacksColumn("is_correct"))
    => /\ md_out.outcome = "ValueError"
       /\ md_out.prepare_calls = 0
       /\ md_out.pairs = 0

C12_Witness ==
    /\ MdEnded
    /\ md_out.outcome = "ValueError"
    /\ LacksColumn("is_correct")
    /\ ~LacksColumn(md_args.prediction_key)
    /\ Len(InRows) = 1
    /\ md_args.use_gt

\* C14: whenever a cache hit returns records, they were written by an earlier
\* call whose output-affecting parameters all equal the current call's: the
\* model, the dataset (its examples, not only its column names and row
\* count), the evaluator, the prompt function, the sampling hyper-parameters,
\* the example count and the column bindings.  Calls that differ in any of
\* these never share an artifact.
C14_HitSameConfiguration ==
    (/\ cur.outcome = "loaded"
     /\ prev.outcome = "computed"
     /\ PathOf(prev.cfg) = PathOf(cur.cfg))
    => Configuration(prev.cfg) = Configuration(cur.cfg)

\* C18: on a cache miss with 0 < num_examples <= the dataset's size, the
\* function prepares prompts, generates and evaluates for exactly the first
\* num_examples examples of the input, in their original order; with
\* num_examples <= 0 it uses every example.
C18_FirstExamples ==
    (cur.outcome = "computed"
       /\ cur.cfg.num_examples <= Len(cur.cfg.dataset.rows))
    => LET rows == cur.cfg.dataset.rows
           n == IF cur.cfg.num_examples > 0 THEN cur.cfg.num_examples
                ELSE Len(rows)
       IN  /\ cur.used.rows = SubSeq(rows, 1, n)
           /\ Len(cur.predictions) = n
           /\ cur.counts.evaluate = n
           /\ Len(cur.score_lists) = n
           /\ \A k \in 1..Len(cur.result.rows) :
                  \E i \in 1..n :
                      /\ DictGet(cur.result.rows[k], cur.cfg.question_key)
                           = DictGet(rows[i], cur.cfg.question_key)
                      /\ DictGet(cur.result.rows[k], cur.cfg.answer_key)
                           = DictGet(rows[i], cur.cfg.answer_key)

C18_Witness ==
    /\ cur.outcome = "computed"
    /\ cur.cfg.num_examples = 1
    /\ Len(cur.cfg.dataset.rows) = 2
    /\ cur.cfg.dataset.rows[1] # cur.cfg.dataset.rows[2]
    /\ Len(cur.result.rows) = 2
    /\ cur.counts.evaluate = 1

(***************************************************************************)
(* Calls during which the file system fails: two examples, one candidate   *)
(* each, so that an interrupted write leaves zero or one complete line.    *)
(***************************************************************************)
TwoRowDataset ==
    [column_names |-> <<"question", "answer">>,
     rows |-> << InputRow(<<"question", "answer">>,
                          [question |-> "q1", answer |-> "a1"]),
                 InputRow(<<"question", "answer">>,
                          [question |-> "q2", answer |-> "a2"]) >>]

FaultConfigs == {Config(TwoRowDataset, 1, -1, 42, ic) : ic \in BOOLEAN}

\* open fails; the write stops after `at` complete lines, or inside the line
\* after them; the read fails
FileFaults(cfg) ==
    {NoFault, Fault("open_fails", 0), Fault("read_fails", 0)}
    \cup {Fault("write_cut", k) : k \in 0..(Len(Used(cfg).rows) - 1)}
    \cup {Fault("write_torn", k) : k \in 0..(Len(Used(cfg).rows) - 1)}

NextFault ==
    \E cfg \in FaultConfigs :
        \E predictions \in GeneratorOutputs(cfg) :
            \E score_lists \in EvaluatorOutputs(cfg, {cfg.num_completions}) :
                \E fault \in FileFaults(cfg) :
                    GenerateAndEvaluate(cfg, predictions, score_lists, fault)

SpecFault == Init /\ [][NextFault]_vars

\* the previous call computed its records and then failed to persist them
PrevWriteFailed ==
    /\ prev.outcome = "OSError"
    /\ prev.counts.generate = 1

\* C15: if the cache write fails or is cut off part-way, no valid cache entry
\* exists afterwards: the next call with the same configuration and
\* ignore_cache=false recomputes and returns no partial record set read from
\* the incomplete artifact.
C15_FailedWriteLeavesNoEntry ==
    (/\ PrevWriteFailed
     /\ Configuration(cur.cfg) = Configuration(prev.cfg)
     /\ ~cur.cfg.ignore_cache
     /\ cur.fault = NoFault)
    => /\ cur.outcome = "computed"
       /\ cur.counts.generate = 1

\* the artifact of the current call was there and could not be read or parsed
ArtifactUnreadable ==
    /\ Called
    /\ PathOf(cur.cfg) \in DOMAIN cur.cache_before
    /\ \/ cur.fault.kind = "read_fails"
       \/ \E i \in 1..Len(cur.cache_before[PathOf(cur.cfg)]) :
              Malformed(cur.cache_before[PathOf(cur.cfg)][i])

\* C16: when the artifact exists but reading or parsing it fails, a call
\* with ignore_cache=false behaves as on a cache miss: it recomputes and
\* returns the recomputed records, and neither raises the read error nor
\* returns corrupt data.
C16_UnreadableArtifactIsMiss ==
    (/\ ArtifactUnreadable
     /\ ~cur.cfg.ignore_cache
     /\ cur.fault.kind \in {"none", "read_fails"})
    => /\ cur.outcome = "computed"
       /\ cur.counts.generate = 1
       /\ Len(cur.result.rows) = Len(cur.cfg.dataset.rows)

\* the current call missed, computed its records and failed to persist them
WriteFailed ==
    /\ Called
    /\ cur.counts.generate = 1
    /\ cur.fault.kind \in {"open_fails", "write_cut", "write_torn"}

\* C17: when persisting the artifact fails during a cache-miss run,
\* generate_and_evaluate does not fail: it still returns the complete
\* in-memory dataset, and the cache holds no entry for that fingerprint.
C17_FailedWriteStillReturns ==
    WriteFailed
    => /\ cur.outcome = "computed"
       /\ Len(cur.result.rows) = Len(cur.cfg.dataset.rows)
       /\ PathOf(cur.cfg) \notin DOMAIN cache

(***************************************************************************)
(* Calls during which the generator or the evaluator raises.               *)
(***************************************************************************)
RaiseConfigs ==
    {Config(d, 1, -1, 42, ic) :
        d \in {x \in InputDatasets({1}) : x.column_names = <<"question", "answer">>},
        ic \in BOOLEAN}

CollaboratorFaults(cfg) ==
    {NoFault, Fault("generator_raises", 0)}
    \cup {Fault("evaluator_raises", i) : i \in 1..Len(Used(cfg).rows)}

NextRaise ==
    \E cfg \in RaiseConfigs :
        \E predictions \in GeneratorOutputs(cfg) :
            \E score_lists \in EvaluatorOutputs(cfg, {cfg.num_completions}) :
                \E fault \in CollaboratorFaults(cfg) :
                    GenerateAndEvaluate(cfg, predictions, score_lists, fault)

SpecRaise == Init /\ [][NextRaise]_vars

\* C19: when the generator or the evaluator raises, the error reaches the
\* caller as it is, nothing is retried, and the cache is left as it was:
\* no artifact is created, and with ignore_cache=true an artifact that
\* exists keeps its content.
C19_CollaboratorErrorLeavesCache ==
    (Called /\ cur.counts.prepare = 1
       /\ cur.fault.kind \in {"generator_raises", "evaluator_raises"})
    => /\ cur.outcome = IF cur.fault.kind = "generator_raises"
                        THEN "GeneratorError" ELSE "EvaluatorError"
       /\ cur.result = <<>>
       /\ cur.counts.generate = 1
       /\ cur.counts.evaluate
            = IF cur.fault.kind = "generator_raises" THEN 0 ELSE cur.fault.at
       /\ cache = cur.cache_before

C19_Witness ==
    /\ cur.outcome = "EvaluatorError"
    /\ cur.cfg.ignore_cache
    /\ prev.outcome = "computed"
    /\ PathOf(cur.cfg) = PathOf(prev.cfg)
    /\ cache[PathOf(cur.cfg)] = WriteLines(prev.result)
    /\ Len(cache[PathOf(cur.cfg)]) = 1

(***************************************************************************)
(* hash_params on its own: three mappings are hashed, the parameters of a  *)
(* call, the same items inserted in another order, and the parameters of a *)
(* call that differs in at most one hyperparameter.                        *)
(***************************************************************************)
\* the items of a mapping inserted in another order
Rotated(params, r) ==
    [i \in 1..Len(params) |-> params[((i - 1 + r) % Len(params)) + 1]]

Reversed(params) == [i \in 1..Len(params) |-> params[Len(params) + 1 - i]]

HashBaseConfigs ==
    {Config(d, k, ne, s, FALSE) :
        d \in {x \in InputDatasets({1}) : x.column_names = <<"question", "answer">>},
        k \in {1, 2}, ne \in {-1, 1}, s \in {42, 43}}

\* cfg itself and the calls that pass one other argument
OneArgumentChanged(cfg) ==
    {cfg,
     [cfg EXCEPT !.model_path = "meta-llama/llama-3.2-3b-instruct"],
     [cfg EXCEPT !.max_new_tokens = 512],
     [cfg EXCEPT !.temperature = "1.0"],
     [cfg EXCEPT !.num_completions = 10],
     [cfg EXCEPT !.top_p = "0.95"],
     [cfg EXCEPT !.num_examples = 100],
     [cfg EXCEPT !.seed = 7]}

HashInputs ==
    UNION {UNION {{[first |-> Params(c),
                    reordered |-> Rotated(Params(c), r),
                    other |-> IF rev THEN Reversed(Params(c2)) ELSE Params(c2),
                    digests |-> <<>>] :
                       r \in 1..(Len(Params(c)) - 1), rev \in BOOLEAN} :
                  c2 \in OneArgumentChanged(c)} : c \in HashBaseConfigs}

InitHash ==
    /\ cache = <<>>
    /\ cache_dir = FALSE
    /\ ncalls = 0
    /\ prev = NoCall
    /\ cur = NoCall
    /\ md_args = <<>>
    /\ md_out = <<>>
    /\ race = <<>>
    /\ hp \in HashInputs

\* hash_params applied to the three mappings
HashThree ==
    /\ hp.digests = <<>>
    /\ hp' = [hp EXCEPT !.digests = <<HashParams(hp.first),
                                      HashParams(hp.reordered),
                                      HashParams(hp.other)>>]
    /\ UNCHANGED <<cache, cache_dir, ncalls, prev, cur, md_args, md_out, race>>

NextHash == HashThree

SpecHash == InitHash /\ [][NextHash]_vars

Hashed == hp.digests # <<>>

\* the keys whose values differ between two mappings with the same keys
DifferingKeys(p, q) ==
    {k \in {p[i][1] : i \in 1..Len(p)} : DictGet(p, k) # DictGet(q, k)}

SameKeys(p, q) ==
    {p[i][1] : i \in 1..Len(p)} = {q[i][1] : i \in 1..Len(q)}

\* C13: hash_params gives the same digest for two mappings with the same
\* keys and values inserted in different orders, and, the hash being
\* injective on the canonical serialization, different digests for two
\* configurations that differ in exactly one hyperparameter.
C13_OrderIndependentFingerprint ==
    Hashed =>
        /\ (SameKeys(hp.first, hp.reordered)
              /\ DifferingKeys(hp.first, hp.reordered) = {})
           => hp.digests[1] = hp.digests[2]
        /\ (SameKeys(hp.first, hp.other)
              /\ Cardinality(DifferingKeys(hp.first, hp.other)) = 1)
           => hp.digests[1] # hp.digests[3]
        /\ (SameKeys(hp.first, hp.other)
              /\ DifferingKeys(hp.first, hp.other) = {})
           => hp.digests[1] = hp.digests[3]

C13_Witness ==
    /\ Hashed
    /\ hp.first # hp.reordered
    /\ DifferingKeys(hp.first, hp.reordered) = {}
    /\ hp.other[1][1] = "prediction_key"
    /\ DifferingKeys(hp.first, hp.other) = {"temperature"}
    /\ hp.digests[1] = hp.digests[2]
    /\ hp.digests[1] # hp.digests[3]

(***************************************************************************)
(* Two calls that both missed for one fingerprint and write the artifact   *)
(* concurrently, and a third call that reads it.  Every process has its    *)
(* own position in the file; a step is one open, one f.write or one read.  *)
(***************************************************************************)
Writers == {"A", "B"}

\* the lines a writer is about to persist: WriteLines of what it computed
RecordLines(cfg, predictions, score_lists) ==
    WriteLines(DatasetFromList(
        Flatten(cfg, Column(Used(cfg), cfg.question_key),
                Column(Used(cfg), cfg.answer_key),
                predictions, score_lists, Len(predictions))))

RaceConfig == Config(TwoRowDataset, 1, -1, 42, FALSE)

\* sampled generation: the two writers need not have the same candidates
RaceLines ==
    {RecordLines(RaceConfig, predictions,
                 [i \in 1..Len(predictions) |-> <<TRUE>>]) :
        predictions \in GeneratorOutputs(RaceConfig)}

\* the bytes of a region of the file that nobody has written
HoleLine == << <<"", "torn", "">> >>

\* one line written at the writer's own position, counted in lines
PutLine(lines, pos, line) ==
    IF pos <= Len(lines) THEN [lines EXCEPT ![pos] = line]
    ELSE lines \o [k \in 1..(pos - 1 - Len(lines)) |-> HoleLine] \o <<line>>

RaceInputs ==
    {[exists |-> FALSE, file |-> <<>>,
      writers |-> [w \in Writers |->
                     [pc |-> "computed", written |-> 0,
                      lines |-> IF w = "A" THEN a ELSE b]],
      third |-> [pc |-> "start", outcome |-> "none", lines |-> <<>>]] :
        a \in RaceLines, b \in RaceLines}

InitRace ==
    /\ cache = <<>>
    /\ cache_dir = TRUE
    /\ ncalls = 0
    /\ prev = NoCall
    /\ cur = NoCall
    /\ md_args = <<>>
    /\ md_out = <<>>
    /\ hp = <<>>
    /\ race \in RaceInputs

\* line 111: open(cache_path, "w") creates the file or empties it
Open(w) ==
    /\ race.writers[w].pc = "computed"
    /\ race' = [race EXCEPT !.exists = TRUE, !.file = <<>>,
                            !.writers[w].pc = "writing"]
    /\ UNCHANGED <<cache, cache_dir, ncalls, prev, cur, md_args, md_out, hp>>

\* lines 113-114: one f.write
WriteLine(w) ==
    /\ race.writers[w].pc = "writing"
    /\ race.writers[w].written < Len(race.writers[w].lines)
    /\ race' = [race EXCEPT
                  !.file = PutLine(race.file, race.writers[w].written + 1,
                                   race.writers[w].lines[race.writers[w].written + 1]),
                  !.writers[w].written = race.writers[w].written + 1]
    /\ UNCHANGED <<cache, cache_dir, ncalls, prev, cur, md_args, md_out, hp>>

\* lines 114-116: the loop is over, the file is closed, the call returns
Close(w) ==
    /\ race.writers[w].pc = "writing"
    /\ race.writers[w].written = Len(race.writers[w].lines)
    /\ race' = [race EXCEPT !.writers[w].pc = "done"]
    /\ UNCHANGED <<cache, cache_dir, ncalls, prev, cur, md_args, md_out, hp>>

\* lines 55-58 of a third call with ignore_cache=false
ThirdCall ==
    /\ race.third.pc = "start"
    /\ race' = [race EXCEPT !.third =
                  IF ~race.exists
                  THEN [pc |-> "done", outcome |-> "miss", lines |-> <<>>]
                  ELSE IF ReadOutcome(race.file, NoFault) = "loaded"
                  THEN [pc |-> "done", outcome |-> "loaded", lines |-> race.file]
                  ELSE [pc |-> "done", outcome |-> ReadOutcome(race.file, NoFault),
                        lines |-> <<>>]]
    /\ UNCHANGED <<cache, cache_dir, ncalls, prev, cur, md_args, md_out, hp>>

NextRace ==
    \/ \E w \in Writers : Open(w)
    \/ \E w \in Writers : WriteLine(w)
    \/ \E w \in Writers : Close(w)
    \/ ThirdCall

SpecRace == InitRace /\ [][NextRace]_vars

BothWritersDone == \A w \in Writers : race.writers[w].pc = "done"

CompleteSets == {race.writers[w].lines : w \in Writers}

\* C20: when two processes run concurrently on a cache miss for the same
\* fingerprint, with no locking and line-by-line writes, then once both have
\* finished the artifact holds exactly the complete record set of one of
\* the two writers, and a third call with ignore_cache=false that starts at
\* any point during the writes never returns a strict prefix or a mix of
\* the two.
C20_LastWriterWins ==
    /\ BothWritersDone => (race.exists /\ race.file \in CompleteSets)
    /\ race.third.outcome = "loaded" => race.third.lines \in CompleteSets

=============================================================================
